---- MODULE Spec2Model ----
(***************************************************************************)
(* PluginController (packages/controllers/src/plugins/PluginController.ts) *)
(* as a state machine.  A plugin is initialised in three phases, add,      *)
(* authorize and start; every `await` of the controller is a point where   *)
(* other operations interleave, and everything between two awaits is one   *)
(* atomic step.                                                            *)
(***************************************************************************)
EXTENDS Naturals, Sequences, FiniteSets, TLC

\* ------------------------------------------------------------------ bounds
\* Number of caller slots (suspended async calls of the controller).
MaxTasks == 2
\* Number of promises of _add that exist at the same time.
MaxRuns == 2
\* Number of installPlugins calls that are pending at the same time.
MaxInstalls == 1

\* ----------------------------------------------------------------- domains
Ids == {"a", "b"}
\* initialPermissions of a manifest: no capability, or one.
PermChoices == {{}, {"cap"}}
\* Source text of a bundle.
Sources == {"code"}
\* Opaque per-plugin state written by updatePluginState.
OpaqueStates == {"s1"}
TaskIds == 1..MaxTasks
RunIds == 1..MaxRuns
InstallIds == 1..MaxInstalls

PLUGIN_PREFIX == "wallet_plugin_"
SERIALIZABLE_PLUGIN_PROPERTIES == {"initialPermissions", "name", "permissionName"}

VARIABLES
    store,              \* this.store: [plugins, pluginStates]
    memStore,           \* this.memStore: [inlinePluginIsRunning, plugins, pluginStates]
    pluginRpcHooks,     \* keys of this._pluginRpcHooks
    pluginsBeingAdded,  \* this._pluginsBeingAdded: id -> promise of _add
    addRuns,            \* the promises of _add: RunIds -> run of _add
    tasks,              \* suspended calls: TaskIds -> position of an async call
    installs,           \* pending installPlugins calls
    last                \* the step just taken: operation, arguments, results and
                        \* the collaborator calls it made

vars == <<store, memStore, pluginRpcHooks, pluginsBeingAdded, addRuns, tasks,
          installs, last>>

\* ------------------------------------------------------------- JS objects
EmptyMap == [k \in {} |-> k]

Range(s) == {s[i] : i \in DOMAIN s}

\* { ...a, ...b }
Spread(a, b) ==
    [k \in DOMAIN a \cup DOMAIN b |-> IF k \in DOMAIN b THEN b[k] ELSE a[k]]

\* delete obj[key], for every key of keys
Delete(obj, keys) == [k \in DOMAIN obj \ keys |-> obj[k]]

\* Object.keys / forEach order: a fixed enumeration of a set.
RECURSIVE KeysOf(_)
KeysOf(S) ==
    IF S = {} THEN <<>>
    ELSE LET k == CHOOSE x \in S : TRUE
         IN <<k>> \o KeysOf(S \ {k})

\* A call of a collaborator (Permission Gateway, Execution Backend, network).
Call(fn, arg) == [fn |-> fn, arg |-> arg]

NoResult == [kind |-> "none", err |-> "", val |-> EmptyMap]
Returned(kind, val) == [kind |-> kind, err |-> "", val |-> val]
ErrorResult(err) == [kind |-> "error", err |-> err, val |-> EmptyMap]
Raised(err) == [kind |-> "raised", err |-> err, val |-> EmptyMap]

\* -------------------------------------------------- state store, projection
\* ObservableStore.updateState: shallow replace of the top-level keys.
ObsUpdateState(state, partial) == Spread(state, partial)

FilterMemStoreStateLeaky(newState) ==
    Spread(newState,
           [plugins |-> IF "plugins" \in DOMAIN newState THEN newState.plugins
                        ELSE EmptyMap])
FilterMemStoreStateSerializable(newState) ==
    Spread(newState,
           [plugins |->
              IF "plugins" \in DOMAIN newState
              THEN [n \in DOMAIN newState.plugins |->
                      [k \in DOMAIN newState.plugins[n]
                                \cap SERIALIZABLE_PLUGIN_PROPERTIES |->
                          newState.plugins[n][k]]]
              ELSE EmptyMap])
\* _filterMemStoreState
FilterMemStoreState(newState) ==
    Spread(newState,
           [plugins |->
              IF "plugins" \in DOMAIN newState
              THEN [n \in DOMAIN newState.plugins |->
                      Delete(newState.plugins[n], {"sourceCode"})]
              ELSE EmptyMap])

\* updateState
UpdateState(newState) ==
    /\ store' = ObsUpdateState(store, newState)
    /\ memStore' = ObsUpdateState(memStore, FilterMemStoreState(newState))

\* get
Get(pluginName) ==
    IF pluginName \in DOMAIN store.plugins THEN store.plugins[pluginName] ELSE EmptyMap
Has(pluginName) == pluginName \in DOMAIN store.plugins

\* getSerializable of a record that exists
Serialize(plugin) ==
    [k \in DOMAIN plugin \cap SERIALIZABLE_PLUGIN_PROPERTIES |-> plugin[k]]

Null == [null |-> TRUE]
\* getSerializable
GetSerializable(pluginName) ==
    IF Has(pluginName) THEN Serialize(Get(pluginName)) ELSE Null

\* The record _add constructs.
NewPlugin(pluginName, initialPermissions, sourceCode) ==
    [name |-> pluginName,
     initialPermissions |-> initialPermissions,
     permissionName |-> PLUGIN_PREFIX \o pluginName,
     sourceCode |-> sourceCode,
     isActive |-> FALSE]

\* ------------------------------------------------------------ bookkeeping
IdleTask == [kind |-> "idle", id |-> "", pc |-> "", run |-> 0, src |-> "", call |-> 0]
Task(kind, id, pc, run, src, call) ==
    [kind |-> kind, id |-> id, pc |-> pc, run |-> run, src |-> src, call |-> call]

FreeRun == [id |-> "", pc |-> "free", perms |-> {}, plugin |-> EmptyMap]
FreeInstall == [status |-> "free", requested |-> {}, denied |-> {}, result |-> EmptyMap]

Min(S) == CHOOSE x \in S : \A y \in S : x <= y
FreeTasks(ts) == {t \in TaskIds : ts[t].kind = "idle"}
FreeRuns(runs) == {r \in RunIds : runs[r].pc = "free"}

\* A settled promise of _add that nothing refers to any more is garbage.
Collect(runs, pba, ts) ==
    [r \in RunIds |->
        IF /\ runs[r].pc \in {"resolved", "rejected"}
           /\ r \notin Range(pba)
           /\ \A t \in TaskIds : ts[t].run # r
        THEN FreeRun ELSE runs[r]]

\* What the step just taken did.
Event(op, id, res, calls) ==
    [op |-> op, id |-> id, names |-> <<>>, res |-> res, calls |-> calls, call |-> 0]

\* result[pluginName] = { ...(await this.processRequestedPlugin(pluginName)) };
\* a rejection of processRequestedPlugin rejects Promise.all.
Deliver(inst, c, id, res) ==
    IF c = 0 THEN inst
    ELSE [inst EXCEPT ![c].result = Spread(@, id :> res),
                      ![c].status = IF res.kind = "raised" THEN "rejected" ELSE @]

\* ------------------------------------------------------------------- Init
\* A persisted record, as _add and _setPluginToActive left it in an earlier session.
PersistedPlugins ==
    {NewPlugin(id, perms, src) : id \in Ids, perms \in PermChoices, src \in Sources}
    \cup {[NewPlugin(id, perms, src) EXCEPT !.isActive = TRUE] :
            id \in Ids, perms \in PermChoices, src \in Sources}

\* initState: for each id of ids, no record or a persisted one.
InitStates(ids) ==
    {[plugins |-> ps, pluginStates |-> EmptyMap] :
        ps \in {f \in UNION {[D -> PersistedPlugins] : D \in SUBSET ids} :
                  \A id \in DOMAIN f : f[id].name = id}}

\* constructor
InitWith(initStates) ==
    /\ \E initState \in initStates :
        /\ store = ObsUpdateState([plugins |-> EmptyMap, pluginStates |-> EmptyMap],
                                  initState)
        /\ memStore = ObsUpdateState([inlinePluginIsRunning |-> FALSE,
                                      plugins |-> EmptyMap,
                                      pluginStates |-> EmptyMap],
                                     FilterMemStoreState(initState))
    /\ pluginRpcHooks = {}
    /\ pluginsBeingAdded = EmptyMap
    /\ addRuns = [r \in RunIds |-> FreeRun]
    /\ tasks = [t \in TaskIds |-> IdleTask]
    /\ installs = [c \in InstallIds |-> FreeInstall]
    /\ last = Event("constructor", "", NoResult, <<>>)

Init == InitWith(InitStates(Ids))

\* --------------------------------------------------- synchronous operations
\* updatePluginState
UpdatePluginState(pluginName, newPluginState) ==
    /\ UpdateState([pluginStates |->
                      Spread(store.pluginStates, pluginName :> newPluginState)])
    /\ last' = Event("updatePluginState", pluginName, NoResult, <<>>)
    /\ UNCHANGED <<pluginRpcHooks, pluginsBeingAdded, addRuns, tasks, installs>>

RECURSIVE RemoveCallsPerName(_)
RemoveCallsPerName(pluginNames) ==
    IF pluginNames = <<>> THEN <<>>
    ELSE <<Call("closeAllConnections", <<Head(pluginNames)>>),
           Call("terminateWorkerOf", <<Head(pluginNames)>>)>>
         \o RemoveCallsPerName(Tail(pluginNames))

RECURSIVE RemoveCallsRevokingEach(_)
RemoveCallsRevokingEach(pluginNames) ==
    IF pluginNames = <<>> THEN <<>>
    ELSE <<Call("closeAllConnections", <<Head(pluginNames)>>),
           Call("terminateWorkerOf", <<Head(pluginNames)>>),
           Call("removeAllPermissionsFor", <<Head(pluginNames)>>)>>
         \o RemoveCallsRevokingEach(Tail(pluginNames))

\* removePlugins: the collaborator calls, in order
RemovePluginsCalls(pluginNames) ==
    RemoveCallsPerName(pluginNames)
    \o <<Call("removeAllPermissionsFor", pluginNames)>>

\* removePlugins: the patch it publishes
RemovePluginsPatch(pluginNames) ==
    [plugins |-> Delete(store.plugins, Range(pluginNames)),
     pluginStates |-> Delete(store.pluginStates, Range(pluginNames))]

\* removePlugins (removePlugin(name) is removePlugins([name]))
RemovePlugins(pluginNames) ==
    /\ pluginRpcHooks' = pluginRpcHooks \ Range(pluginNames)
    /\ UpdateState(RemovePluginsPatch(pluginNames))
    /\ last' = [Event("removePlugins", "", NoResult, RemovePluginsCalls(pluginNames))
                  EXCEPT !.names = pluginNames]
    /\ UNCHANGED <<pluginsBeingAdded, addRuns, tasks, installs>>

RECURSIVE CloseCalls(_)
CloseCalls(pluginNames) ==
    IF pluginNames = <<>> THEN <<>>
    ELSE <<Call("closeAllConnections", <<Head(pluginNames)>>)>>
         \o CloseCalls(Tail(pluginNames))

ClearStateKeepingFlag ==
    LET pluginNames == KeysOf(DOMAIN store.plugins)
        patch == [plugins |-> EmptyMap, pluginStates |-> EmptyMap]
    IN /\ pluginRpcHooks' = {}
       /\ UpdateState(patch)
       /\ last' = [Event("clearState", "", NoResult,
                         CloseCalls(pluginNames)
                         \o <<Call("terminateAll", <<>>),
                              Call("removeAllPermissionsFor", pluginNames)>>)
                     EXCEPT !.names = pluginNames]
       /\ UNCHANGED <<pluginsBeingAdded, addRuns, tasks, installs>>
\* clearState
ClearState ==
    LET pluginNames == KeysOf(DOMAIN store.plugins)
        patch == [plugins |-> EmptyMap, pluginStates |-> EmptyMap]
    IN /\ pluginRpcHooks' = {}
       /\ store' = ObsUpdateState(store, patch)
       /\ memStore' = ObsUpdateState(
                         ObsUpdateState(memStore, FilterMemStoreState(patch)),
                         [inlinePluginIsRunning |-> FALSE])
       /\ last' = [Event("clearState", "", NoResult,
                         CloseCalls(pluginNames)
                         \o <<Call("terminateAll", <<>>),
                              Call("removeAllPermissionsFor", pluginNames)>>)
                     EXCEPT !.names = pluginNames]
       /\ UNCHANGED <<pluginsBeingAdded, addRuns, tasks, installs>>

\* ------------------------------------------------------------------ add
NotBeingAddedIgnored(pba, pluginName) == TRUE
\* add: !this._pluginsBeingAdded.has(pluginName)
NotBeingAdded(pba, pluginName) == pluginName \notin DOMAIN pba

\* add, up to the first await of _add: M = [pba, runs]; the result also names
\* the promise returned and whether a fetch sequence was started.
AddSync(M, pluginName) ==
    IF NotBeingAdded(M.pba, pluginName)
    THEN LET r == Min(FreeRuns(M.runs))
         IN [pba |-> Spread(M.pba, pluginName :> r),
             runs |-> [M.runs EXCEPT ![r] = [FreeRun EXCEPT !.id = pluginName,
                                                            !.pc = "manifest"]],
             run |-> r,
             calls |-> <<Call("fetch", <<pluginName>>)>>]
    ELSE [pba |-> M.pba, runs |-> M.runs, run |-> M.pba[pluginName], calls |-> <<>>]

\* The bounds leave room for this call of add.
CanAdd(M, pluginName) ==
    NotBeingAdded(M.pba, pluginName) => FreeRuns(M.runs) # {}

\* add(pluginName), called directly; the caller awaits the promise.
Add(pluginName) ==
    LET M == [pba |-> pluginsBeingAdded, runs |-> addRuns]
        A == AddSync(M, pluginName)
        t == Min(FreeTasks(tasks))
    IN /\ FreeTasks(tasks) # {}
       /\ CanAdd(M, pluginName)
       /\ pluginsBeingAdded' = A.pba
       /\ addRuns' = A.runs
       /\ tasks' = [tasks EXCEPT ![t] = Task("add", pluginName, "awaitAdd", A.run, "", 0)]
       /\ last' = Event("add", pluginName, NoResult, A.calls)
       /\ UNCHANGED <<store, memStore, pluginRpcHooks, installs>>

\* _add: the manifest is fetched and parsed, the bundle is requested
\* (lines 426-433); a failure is rethrown as "Problem loading plugin".
AddManifestSettle(r) ==
    /\ addRuns[r].pc = "manifest"
    /\ \E ok \in BOOLEAN, initialPermissions \in PermChoices :
        /\ ~ok => initialPermissions = {}
        /\ addRuns' =
             Collect([addRuns EXCEPT ![r].pc = IF ok THEN "bundle" ELSE "rejected",
                                     ![r].perms = initialPermissions],
                     pluginsBeingAdded, tasks)
        /\ last' = Event("_add", addRuns[r].id, NoResult,
                         IF ok THEN <<Call("fetch", <<addRuns[r].id>>)>> ELSE <<>>)
    /\ UNCHANGED <<store, memStore, pluginRpcHooks, pluginsBeingAdded, tasks, installs>>

\* _add, lines 449-462: the record written to the store
AddedPlugin(pluginName, plugin) ==
    IF pluginName \in DOMAIN store.plugins
    THEN Spread(store.plugins[pluginName], plugin)
    ELSE plugin

\* _add: the bundle text arrives (or not); the record is constructed, merged
\* with the stored one and written, and the promise resolves with it.
AddBundleSettle(r) ==
    /\ addRuns[r].pc = "bundle"
    /\ \E ok \in BOOLEAN, sourceCode \in Sources :
        LET pluginName == addRuns[r].id
            plugin == AddedPlugin(pluginName,
                                  NewPlugin(pluginName, addRuns[r].perms, sourceCode))
        IN IF ok
           THEN /\ UpdateState([plugins |-> Spread(store.plugins, pluginName :> plugin)])
                /\ addRuns' = Collect([addRuns EXCEPT ![r].pc = "resolved",
                                                      ![r].plugin = plugin],
                                      pluginsBeingAdded, tasks)
                /\ last' = Event("_add", pluginName, Returned("plugin", plugin), <<>>)
           ELSE /\ UNCHANGED <<store, memStore>>
                /\ addRuns' = Collect([addRuns EXCEPT ![r].pc = "rejected"],
                                      pluginsBeingAdded, tasks)
                /\ last' = Event("_add", pluginName, Raised("Problem loading plugin"), <<>>)
    /\ UNCHANGED <<pluginRpcHooks, pluginsBeingAdded, tasks, installs>>

AddOutcomeSwallowingFailure(r) ==
    IF addRuns[r].pc = "resolved"
    THEN Returned("plugin", addRuns[r].plugin)
    ELSE Returned("plugin", NewPlugin(addRuns[r].id, addRuns[r].perms, "code"))
\* What a caller awaiting the promise r of _add receives.
AddOutcome(r) ==
    IF addRuns[r].pc = "resolved"
    THEN Returned("plugin", addRuns[r].plugin)
    ELSE Raised("Problem loading plugin")

\* ------------------------------------------------------------ authorize
\* authorize, lines 476-483: "throw" when the record or its
\* initialPermissions is missing, "empty" for the early return of [],
\* "prompt" when requestPermissions is called.
AuthorizeSync(pluginName) ==
    IF ~Has(pluginName) \/ "initialPermissions" \notin DOMAIN Get(pluginName)
    THEN "throw"
    ELSE IF Get(pluginName).initialPermissions = {} THEN "empty" ELSE "prompt"

\* authorize, line 490-492: finally { this._pluginsBeingAdded.delete(pluginName) }
AuthorizeFinally(pba, pluginName) == Delete(pba, {pluginName})

\* authorize(pluginName), called directly.
Authorize(pluginName) ==
    LET how == AuthorizeSync(pluginName)
        t == Min(FreeTasks(tasks))
    IN /\ how = "prompt" => FreeTasks(tasks) # {}
       /\ tasks' = IF how = "prompt"
                   THEN [tasks EXCEPT ![t] = Task("authorize", pluginName, "awaitPerm",
                                                  0, "", 0)]
                   ELSE tasks
       /\ last' = Event("authorize", pluginName,
                        CASE how = "throw" -> Raised("TypeError")
                          [] how = "empty" -> Returned("list", EmptyMap)
                          [] OTHER -> NoResult,
                        IF how = "prompt"
                        THEN <<Call("requestPermissions", <<pluginName>>)>> ELSE <<>>)
       /\ UNCHANGED <<store, memStore, pluginRpcHooks, pluginsBeingAdded, addRuns,
                      installs>>

\* ---------------------------------------------------------------- start
\* _startPluginInWorker up to its first await
StartCalls(pluginName) == <<Call("createPluginWorker", <<pluginName>>)>>

UpdatePluginPatchOfOne(pluginName, property, value) ==
    [plugins |-> pluginName :> Spread(Get(pluginName), property :> value)]
\* _updatePlugin: the patch it publishes
UpdatePluginPatch(pluginName, property, value) ==
    [plugins |-> Spread(store.plugins,
                        pluginName :> Spread(Get(pluginName), property :> value))]

\* _setPluginToActive
SetPluginToActive(pluginName) ==
    UpdateState(UpdatePluginPatch(pluginName, "isActive", TRUE))

\* ---------------------------------------------------- processRequestedPlugin
IsActive(pluginName) ==
    /\ Has(pluginName)
    /\ "isActive" \in DOMAIN Get(pluginName)
    /\ Get(pluginName).isActive

ProcessRethrow(err) == Raised(err)
\* processRequestedPlugin: catch (err) { return { error: serializeError(err) } }
ProcessCatch(err) == ErrorResult(err)

\* processRequestedPlugin up to its first await, for the install call c (0: a
\* direct call).  M = [pba, runs, ts, inst, calls, res, ok].
ProcessSync(M, pluginName, c) ==
    IF IsActive(pluginName)
    THEN LET view == Returned("view", Serialize(Get(pluginName)))
         IN [M EXCEPT !.inst = Deliver(M.inst, c, pluginName, view), !.res = view]
    ELSE IF ~CanAdd(M, pluginName) \/ FreeTasks(M.ts) = {}
    THEN [M EXCEPT !.ok = FALSE]
    ELSE LET A == AddSync(M, pluginName)
             t == Min(FreeTasks(M.ts))
         IN [M EXCEPT !.pba = A.pba,
                      !.runs = A.runs,
                      !.ts = [M.ts EXCEPT ![t] = Task("process", pluginName, "awaitAdd",
                                                      A.run, "", c)],
                      !.calls = M.calls \o A.calls]

Working(inst) ==
    [pba |-> pluginsBeingAdded, runs |-> addRuns, ts |-> tasks, inst |-> inst,
     calls |-> <<>>, res |-> NoResult, ok |-> TRUE]

\* processRequestedPlugin(pluginName), called directly.
ProcessRequestedPlugin(pluginName) ==
    LET R == ProcessSync(Working(installs), pluginName, 0)
    IN /\ R.ok
       /\ pluginsBeingAdded' = R.pba
       /\ addRuns' = R.runs
       /\ tasks' = R.ts
       /\ last' = Event("processRequestedPlugin", pluginName, R.res, R.calls)
       /\ UNCHANGED <<store, memStore, pluginRpcHooks, installs>>

\* ------------------------------------------------------------ installPlugins
PermittedAlways(granted, pluginName) == TRUE
\* installPlugins: this._hasPermission(origin, PLUGIN_PREFIX + pluginName);
\* granted holds the ids for which the Permission Gateway answers true.
Permitted(granted, pluginName) == pluginName \in granted

Unauthorized == ErrorResult("unauthorized")

RECURSIVE InstallLoop(_, _, _, _)
\* installPlugins: the callback of Object.keys(requestedPlugins).map, for each
\* name in turn, up to its first await
InstallLoop(M, names, granted, c) ==
    IF names = <<>> THEN M
    ELSE InstallLoop(IF Permitted(granted, Head(names))
                     THEN ProcessSync(M, Head(names), c)
                     ELSE [M EXCEPT !.inst = Deliver(M.inst, c, Head(names),
                                                     Unauthorized)],
                     Tail(names), granted, c)

\* installPlugins(origin, requestedPlugins)
InstallPlugins(c, requested, granted) ==
    LET inst == [installs EXCEPT ![c] = [status |-> "pending",
                                         requested |-> requested,
                                         denied |-> requested \ granted,
                                         result |-> EmptyMap]]
        R == InstallLoop(Working(inst), KeysOf(requested), granted, c)
    IN /\ installs[c].status = "free"
       /\ \A d \in InstallIds : installs[d].status = "free" => c <= d
       /\ R.ok
       /\ pluginsBeingAdded' = R.pba
       /\ addRuns' = R.runs
       /\ tasks' = R.ts
       /\ installs' = R.inst
       /\ last' = [Event("installPlugins", "", NoResult, R.calls)
                     EXCEPT !.names = KeysOf(requested), !.call = c]
       /\ UNCHANGED <<store, memStore, pluginRpcHooks>>

\* await Promise.all(...) settles and installPlugins returns result.
InstallSettle(c) ==
    /\ IF installs[c].status = "rejected"
       THEN \A t \in TaskIds : tasks[t].call # c
       ELSE /\ installs[c].status = "pending"
            /\ DOMAIN installs[c].result = installs[c].requested
    /\ installs' = [installs EXCEPT ![c] = FreeInstall]
    /\ last' = [Event("installPlugins settled", "",
                      IF installs[c].status = "rejected"
                      THEN Raised("rejected")
                      ELSE Returned("result", installs[c].result),
                      <<>>)
                  EXCEPT !.names = KeysOf(installs[c].requested), !.call = c]
    /\ UNCHANGED <<store, memStore, pluginRpcHooks, pluginsBeingAdded, addRuns, tasks>>

\* ------------------------------------------------------- resumed awaits
\* A step that resumes the suspended call t: it goes on to `next` (IdleTask
\* when the call settles with `res`).
Resume(t, op, next, res, calls) ==
    /\ tasks' = [tasks EXCEPT ![t] = next]
    /\ installs' = IF next = IdleTask /\ tasks[t].kind = "process"
                   THEN Deliver(installs, tasks[t].call, tasks[t].id, res)
                   ELSE installs
    /\ last' = [Event(op, tasks[t].id, res, calls) EXCEPT !.call = tasks[t].call]

\* `await this.add(pluginName)` resumes with the outcome of the promise; in
\* processRequestedPlugin authorize is then called, and after its early
\* return _startPluginInWorker.
ResumeAdd(t) ==
    LET tk == tasks[t]
        out == AddOutcome(tk.run)
        how == AuthorizeSync(tk.id)
        src == IF out.kind = "plugin" THEN out.val.sourceCode ELSE ""
    IN /\ tk.pc = "awaitAdd"
       /\ addRuns[tk.run].pc \in {"resolved", "rejected"}
       /\ CASE tk.kind = "add" ->
                 Resume(t, "add settled", IdleTask, out, <<>>)
            [] tk.kind = "process" /\ out.kind = "raised" ->
                 Resume(t, "processRequestedPlugin settled", IdleTask,
                        ProcessCatch(out.err), <<>>)
            [] tk.kind = "process" /\ out.kind # "raised" /\ how = "throw" ->
                 Resume(t, "processRequestedPlugin settled", IdleTask,
                        ProcessCatch("TypeError"), <<>>)
            [] tk.kind = "process" /\ out.kind # "raised" /\ how = "empty" ->
                 Resume(t, "authorize returned", 
                        Task("process", tk.id, "awaitWorker", 0, src, tk.call),
                        Returned("list", EmptyMap), StartCalls(tk.id))
            [] OTHER ->
                 Resume(t, "authorize prompts",
                        Task("process", tk.id, "awaitPerm", 0, src, tk.call),
                        NoResult, <<Call("requestPermissions", <<tk.id>>)>>)
       /\ addRuns' = Collect(addRuns, pluginsBeingAdded, tasks')
       /\ UNCHANGED <<store, memStore, pluginRpcHooks, pluginsBeingAdded>>

\* `await this._requestPermissions(...)` settles in authorize; the finally
\* block runs, then authorize returns or rethrows.
PermSettle(t, ok) ==
    LET tk == tasks[t]
    IN /\ tk.pc = "awaitPerm"
       /\ pluginsBeingAdded' = AuthorizeFinally(pluginsBeingAdded, tk.id)
       /\ CASE tk.kind = "authorize" ->
                 Resume(t, "authorize settled", IdleTask,
                        IF ok THEN Returned("list", EmptyMap) ELSE Raised("rejected"),
                        <<>>)
            [] tk.kind # "authorize" /\ ok ->
                 Resume(t, "authorize returned",
                        [tk EXCEPT !.pc = "awaitWorker"],
                        Returned("list", EmptyMap), StartCalls(tk.id))
            [] OTHER ->
                 Resume(t, "processRequestedPlugin settled", IdleTask,
                        ProcessCatch("rejected"), <<>>)
       /\ addRuns' = Collect(addRuns, pluginsBeingAdded', tasks')
       /\ UNCHANGED <<store, memStore, pluginRpcHooks>>

\* How a failed _startPluginInWorker ends for its caller: processRequestedPlugin
\* awaits it inside its try block; runExistingPlugins and runInlinePlugin do not
\* await it, so the rejection reaches no handler (the catch of
\* runExistingPlugins, lines 187-192, sees synchronous throws only).
StartFailed(t, err) ==
    IF tasks[t].kind = "process"
    THEN Resume(t, "processRequestedPlugin settled", IdleTask, ProcessCatch(err), <<>>)
    ELSE Resume(t, "start failed", IdleTask, Raised(err), <<>>)

WorkerSettleWithoutHook(t, ok) ==
    LET tk == tasks[t]
    IN /\ tk.pc = "awaitWorker"
       /\ pluginRpcHooks' = pluginRpcHooks
       /\ IF ok
          THEN Resume(t, "_createPluginHooks", [tk EXCEPT !.pc = "awaitStart"],
                      NoResult, <<Call("startPlugin", <<tk.id>>)>>)
          ELSE StartFailed(t, "createPluginWorker")
       /\ UNCHANGED <<store, memStore, pluginsBeingAdded, addRuns>>
\* `await this.workerController.createPluginWorker(...)` settles; on success
\* the hook is registered and the start command is sent.
WorkerSettle(t, ok) ==
    LET tk == tasks[t]
    IN /\ tk.pc = "awaitWorker"
       /\ IF ok
          THEN /\ pluginRpcHooks' = pluginRpcHooks \cup {tk.id}
               /\ Resume(t, "_createPluginHooks", [tk EXCEPT !.pc = "awaitStart"],
                         NoResult, <<Call("startPlugin", <<tk.id>>)>>)
          ELSE /\ pluginRpcHooks' = pluginRpcHooks
               /\ StartFailed(t, "createPluginWorker")
       /\ UNCHANGED <<store, memStore, pluginsBeingAdded, addRuns>>

\* `await this.workerController.startPlugin(...)` settles; on success the
\* plugin is set to active, and processRequestedPlugin returns
\* getSerializable(pluginName).
StartSettle(t, ok) ==
    LET tk == tasks[t]
    IN /\ tk.pc = "awaitStart"
       /\ IF ok
          THEN /\ SetPluginToActive(tk.id)
               /\ IF tk.kind = "process"
                  THEN Resume(t, "processRequestedPlugin settled", IdleTask,
                              Returned("view", Serialize(store'.plugins[tk.id])), <<>>)
                  ELSE Resume(t, "started", IdleTask, NoResult, <<>>)
          ELSE /\ UNCHANGED <<store, memStore>>
               /\ StartFailed(t, "startPlugin")
       /\ UNCHANGED <<pluginRpcHooks, pluginsBeingAdded, addRuns>>

\* ------------------------------------------------------ runExistingPlugins
RECURSIVE Spawn(_, _)
Spawn(ts, new) ==
    IF new = <<>> THEN ts
    ELSE Spawn([ts EXCEPT ![Min(FreeTasks(ts))] = Head(new)], Tail(new))

\* The name and sourceCode fields of a stored record (undefined when absent).
FieldOf(plugin, field) ==
    IF field \in DOMAIN plugin THEN plugin[field] ELSE "undefined"

RECURSIVE StartAll(_)
StartAll(keys) ==
    IF keys = <<>> THEN <<>>
    ELSE <<Task("start", FieldOf(store.plugins[Head(keys)], "name"), "awaitWorker", 0,
                FieldOf(store.plugins[Head(keys)], "sourceCode"), 0)>>
         \o StartAll(Tail(keys))

RECURSIVE StartAllCalls(_)
StartAllCalls(new) ==
    IF new = <<>> THEN <<>> ELSE StartCalls(Head(new).id) \o StartAllCalls(Tail(new))

\* runExistingPlugins: _startPluginInWorker is called for every stored record
\* and not awaited.
RunExistingPlugins ==
    LET new == StartAll(KeysOf(DOMAIN store.plugins))
    IN /\ DOMAIN store.plugins # {}
       /\ Cardinality(FreeTasks(tasks)) >= Len(new)
       /\ tasks' = Spawn(tasks, new)
       /\ last' = Event("runExistingPlugins", "", NoResult, StartAllCalls(new))
       /\ UNCHANGED <<store, memStore, pluginRpcHooks, pluginsBeingAdded, addRuns,
                      installs>>

\* ------------------------------------------------------------ inline mode
\* The reserved id of the inline plugin.
InlinePlugin == "inlinePlugin"
\* INLINE_PLUGINS: the built-in source payloads, by variant name.
INLINE_PLUGINS == [IDLE |-> "idle code"]

\* runInlinePlugin: _startPluginInWorker is called and not awaited, then the
\* flag is set in the memStore.
RunInlinePlugin(inlinePluginName) ==
    LET t == Min(FreeTasks(tasks))
    IN /\ FreeTasks(tasks) # {}
       /\ tasks' = [tasks EXCEPT ![t] = Task("inline", InlinePlugin, "awaitWorker", 0,
                                              INLINE_PLUGINS[inlinePluginName], 0)]
       /\ memStore' = ObsUpdateState(memStore, [inlinePluginIsRunning |-> TRUE])
       /\ last' = Event("runInlinePlugin", InlinePlugin, NoResult,
                        StartCalls(InlinePlugin))
       /\ UNCHANGED <<store, pluginRpcHooks, pluginsBeingAdded, addRuns, installs>>

\* removeInlinePlugin: the flag is reset, then removePlugin('inlinePlugin').
RemoveInlinePlugin ==
    LET pluginNames == <<InlinePlugin>>
        patch == RemovePluginsPatch(pluginNames)
    IN /\ pluginRpcHooks' = pluginRpcHooks \ Range(pluginNames)
       /\ store' = ObsUpdateState(store, patch)
       /\ memStore' = ObsUpdateState(
                         ObsUpdateState(memStore, [inlinePluginIsRunning |-> FALSE]),
                         FilterMemStoreState(patch))
       /\ last' = [Event("removeInlinePlugin", InlinePlugin, NoResult,
                         RemovePluginsCalls(pluginNames))
                     EXCEPT !.names = pluginNames]
       /\ UNCHANGED <<pluginsBeingAdded, addRuns, tasks, installs>>

\* ------------------------------------------------------------------- Next
\* Arguments of removePlugins.
NameLists == {<<id>> : id \in Ids} \cup {KeysOf(Ids)}

Next ==
    \/ \E id \in Ids, s \in OpaqueStates : UpdatePluginState(id, s)
    \/ \E names \in NameLists : RemovePlugins(names)
    \/ ClearState
    \/ \E id \in Ids : Add(id)
    \/ \E id \in Ids : Authorize(id)
    \/ \E id \in Ids : ProcessRequestedPlugin(id)
    \/ \E c \in InstallIds, requested \in SUBSET Ids \ {{}} :
         \E granted \in SUBSET requested : InstallPlugins(c, requested, granted)
    \/ RunExistingPlugins
    \/ \E n \in DOMAIN INLINE_PLUGINS : RunInlinePlugin(n)
    \/ RemoveInlinePlugin
    \/ \E r \in RunIds : AddManifestSettle(r)
    \/ \E r \in RunIds : AddBundleSettle(r)
    \/ \E t \in TaskIds : ResumeAdd(t)
    \/ \E t \in TaskIds, ok \in BOOLEAN : PermSettle(t, ok)
    \/ \E t \in TaskIds, ok \in BOOLEAN : WorkerSettle(t, ok)
    \/ \E t \in TaskIds, ok \in BOOLEAN : StartSettle(t, ok)
    \/ \E c \in InstallIds : InstallSettle(c)

Spec == Init /\ [][Next]_vars

\* The state graph of Spec is too large to enumerate.  The specifications
\* below are Spec with the callers restricted: each next-state relation is a
\* sub-disjunction of Next, each Init a subset of Init.

\* The resumed awaits of add, authorize and start.
Awaits ==
    \/ \E r \in RunIds : AddManifestSettle(r)
    \/ \E r \in RunIds : AddBundleSettle(r)
    \/ \E t \in TaskIds : ResumeAdd(t)
    \/ \E t \in TaskIds, ok \in BOOLEAN : PermSettle(t, ok)
    \/ \E t \in TaskIds, ok \in BOOLEAN : WorkerSettle(t, ok)
    \/ \E t \in TaskIds, ok \in BOOLEAN : StartSettle(t, ok)

\* The installation pipeline of one plugin: add, authorize and
\* processRequestedPlugin of "a" called in any order and overlap, with
\* removals and resets in between.
InitPipeline == InitWith(InitStates({"a"}))
NextPipeline ==
    \/ Add("a")
    \/ Authorize("a")
    \/ ProcessRequestedPlugin("a")
    \/ RemovePlugins(<<"a">>)
    \/ ClearState
    \/ Awaits
SpecPipeline == InitPipeline /\ [][NextPipeline]_vars

\* installPlugins over both ids, from an empty store.
InitInstall == InitWith(InitStates({}))
NextInstall ==
    \/ \E c \in InstallIds, requested \in SUBSET Ids \ {{}} :
         \E granted \in SUBSET requested : InstallPlugins(c, requested, granted)
    \/ \E c \in InstallIds : InstallSettle(c)
    \/ ClearState
    \/ Awaits
SpecInstall == InitInstall /\ [][NextInstall]_vars

\* Every collaborator call and every promise eventually settles.
FairAwaits ==
    /\ \A r \in RunIds : WF_vars(AddManifestSettle(r)) /\ WF_vars(AddBundleSettle(r))
    /\ \A t \in TaskIds :
        /\ WF_vars(ResumeAdd(t))
        /\ WF_vars(\E ok \in BOOLEAN : PermSettle(t, ok))
        /\ WF_vars(\E ok \in BOOLEAN : WorkerSettle(t, ok))
        /\ WF_vars(\E ok \in BOOLEAN : StartSettle(t, ok))
    /\ \A c \in InstallIds : WF_vars(InstallSettle(c))
SpecInstallFair == SpecInstall /\ FairAwaits

\* The store and its projection under every operation that writes them.
InitStore == InitWith(InitStates({"b"}))
NextStore ==
    \/ \E id \in Ids, s \in OpaqueStates : UpdatePluginState(id, s)
    \/ \E names \in NameLists : RemovePlugins(names)
    \/ ClearState
    \/ Add("a")
    \/ RunExistingPlugins
    \/ \E r \in RunIds : AddManifestSettle(r)
    \/ \E r \in RunIds : AddBundleSettle(r)
    \/ \E t \in TaskIds : ResumeAdd(t)
    \/ \E t \in TaskIds, ok \in BOOLEAN : WorkerSettle(t, ok)
    \/ \E t \in TaskIds, ok \in BOOLEAN : StartSettle(t, ok)
SpecStore == InitStore /\ [][NextStore]_vars

\* Restart on boot: runExistingPlugins over the persisted records.
InitBoot == InitWith(InitStates(Ids))
NextBoot ==
    \/ RunExistingPlugins
    \/ \E names \in NameLists : RemovePlugins(names)
    \/ \E t \in TaskIds, ok \in BOOLEAN : WorkerSettle(t, ok)
    \/ \E t \in TaskIds, ok \in BOOLEAN : StartSettle(t, ok)
SpecBoot == InitBoot /\ [][NextBoot]_vars

\* Inline mode: runInlinePlugin and removeInlinePlugin in any order and
\* overlap, next to updates of the opaque plugin state.
InitInline == InitWith(InitStates({}))
NextInline ==
    \/ \E n \in DOMAIN INLINE_PLUGINS : RunInlinePlugin(n)
    \/ RemoveInlinePlugin
    \/ \E id \in Ids, s \in OpaqueStates : UpdatePluginState(id, s)
    \/ \E t \in TaskIds, ok \in BOOLEAN : WorkerSettle(t, ok)
    \/ \E t \in TaskIds, ok \in BOOLEAN : StartSettle(t, ok)
SpecInline == InitInline /\ [][NextInline]_vars

\* Reset: clearState over persisted records, restarted plugins, the inline
\* plugin and opaque plugin state.
InitReset == InitWith(InitStates(Ids))
NextReset ==
    \/ ClearState
    \/ RunExistingPlugins
    \/ \E n \in DOMAIN INLINE_PLUGINS : RunInlinePlugin(n)
    \/ \E id \in Ids, s \in OpaqueStates : UpdatePluginState(id, s)
    \/ \E t \in TaskIds, ok \in BOOLEAN : WorkerSettle(t, ok)
    \/ \E t \in TaskIds, ok \in BOOLEAN : StartSettle(t, ok)
SpecReset == InitReset /\ [][NextReset]_vars

\* Repeated installation of one plugin: processRequestedPlugin("a") again
\* and again from an empty store, with removals and resets in between.
InitReinstall == InitWith(InitStates({}))
NextReinstall ==
    \/ ProcessRequestedPlugin("a")
    \/ RemovePlugins(<<"a">>)
    \/ ClearState
    \/ Awaits
SpecReinstall == InitReinstall /\ [][NextReinstall]_vars

\* Operations on different ids interleaved, from an empty store: add of "a"
\* and of "b", next to updates of the opaque state of "b", removals of one id
\* and restarts of what was added.
InitTwoIds == InitWith(InitStates({}))
NextTwoIds ==
    \/ \E id \in Ids : Add(id)
    \/ \E s \in OpaqueStates : UpdatePluginState("b", s)
    \/ \E id \in Ids : RemovePlugins(<<id>>)
    \/ RunExistingPlugins
    \/ \E r \in RunIds : AddManifestSettle(r)
    \/ \E r \in RunIds : AddBundleSettle(r)
    \/ \E t \in TaskIds : ResumeAdd(t)
    \/ \E t \in TaskIds, ok \in BOOLEAN : WorkerSettle(t, ok)
    \/ \E t \in TaskIds, ok \in BOOLEAN : StartSettle(t, ok)
SpecTwoIds == InitTwoIds /\ [][NextTwoIds]_vars

\* ================================================================= claims
InFlight(r) == addRuns[r].pc \in {"manifest", "bundle"}
Settled(r) == addRuns[r].pc \in {"resolved", "rejected"}
CallsOf(fn, calls) == {i \in DOMAIN calls : calls[i].fn = fn}

\* ---- C1
\* C1: a call of add(id) made while the Pending-Install Marker of id is
\* present starts no fetch sequence and returns the promise the marker holds;
\* a settled promise keeps its outcome for as long as a caller can read it, so
\* every caller attached to it receives the same record or the same failure.
C1_SecondAddAttaches ==
    [][/\ \A t \in TaskIds :
            (/\ last'.op \in {"add", "processRequestedPlugin"}
             /\ tasks[t].kind = "idle"
             /\ tasks'[t].pc = "awaitAdd"
             /\ tasks'[t].id \in DOMAIN pluginsBeingAdded)
            => /\ tasks'[t].run = pluginsBeingAdded[tasks'[t].id]
               /\ pluginsBeingAdded' = pluginsBeingAdded
               /\ addRuns' = addRuns
               /\ CallsOf("fetch", last'.calls) = {}
       /\ \A r \in RunIds :
            Settled(r) /\ addRuns'[r].pc # "free" => addRuns'[r] = addRuns[r]
      ]_vars

\* Two callers wait on the same promise of _add while its fetches are in flight.
C1_Witness ==
    \E t1, t2 \in TaskIds :
        /\ t1 # t2
        /\ tasks[t1].pc = "awaitAdd" /\ tasks[t2].pc = "awaitAdd"
        /\ tasks[t1].run = tasks[t2].run
        /\ InFlight(tasks[t1].run)
        /\ last.op \in {"add", "processRequestedPlugin"}
        /\ last.calls = <<>>

\* ---- C2
\* C2: in every reachable state at most one run of _add (a fetch sequence
\* started and not yet settled) exists per id.
C2_OneAddInFlight ==
    \A id \in Ids : Cardinality({r \in RunIds : addRuns[r].id = id /\ InFlight(r)}) <= 1

\* ---- C3
\* C3: whenever authorize(id) settles, with an approval list (the empty list
\* of the early return included) or by raising, the Pending-Install Marker of
\* id is absent immediately afterwards.
C3_AuthorizeClearsMarker ==
    (\/ last.op \in {"authorize settled", "authorize returned"}
     \/ last.op = "authorize" /\ last.res.kind # "none")
    => last.id \notin DOMAIN pluginsBeingAdded

\* ---- C10
\* C10: when processRequestedPlugin(id) resolves with an error because the
\* creation of the execution context or the start command failed, no record
\* and no RPC hook of id remains.
C10_FailedStartRemovesRecord ==
    (/\ last.op = "processRequestedPlugin settled"
     /\ last.res.kind = "error"
     /\ last.res.err \in {"createPluginWorker", "startPlugin"})
    => ~Has(last.id) /\ last.id \notin pluginRpcHooks

\* ---- C4
\* C4: in every reachable state and for every id, neither the value of
\* getSerializable(id) nor the entry memStore.plugins[id] has a sourceCode
\* field.
C4_NoSourceCodeLeaves ==
    /\ \A id \in DOMAIN memStore.plugins : "sourceCode" \notin DOMAIN memStore.plugins[id]
    /\ \A id \in DOMAIN store.plugins \cup Ids :
         "sourceCode" \notin DOMAIN GetSerializable(id)

\* A record with source code is stored, and projected, after _add wrote it and
\* a start set it active.
C4_Witness ==
    \E id \in Ids :
        /\ Has(id) /\ id \in DOMAIN memStore.plugins
        /\ "sourceCode" \in DOMAIN Get(id)
        /\ IsActive(id)
        /\ last.op = "_add" /\ last.res.kind = "plugin"

\* ---- C5
\* C5: after every call of updateState the projection is the projection of the
\* whole canonical document: memStore.plugins has an entry for exactly the ids
\* of store.plugins, each the canonical record minus sourceCode, and
\* memStore.pluginStates equals store.pluginStates.
C5_ProjectionOfWholeStore ==
    /\ DOMAIN memStore.plugins = DOMAIN store.plugins
    /\ \A id \in DOMAIN store.plugins :
         memStore.plugins[id] = Delete(store.plugins[id], {"sourceCode"})
    /\ memStore.pluginStates = store.pluginStates

\* ---- C8
\* C8: immediately after removePlugins(ids) returns (removePlugin(id) is
\* removePlugins([id])), every id of ids has no record, no opaque state and no
\* RPC hook, and the call invoked removeAllPermissionsFor exactly once, with
\* the full id list.
C8_RemovedAndRevokedOnce ==
    last.op = "removePlugins" =>
        /\ \A id \in Range(last.names) :
             /\ ~Has(id)
             /\ id \notin DOMAIN store.pluginStates
             /\ id \notin pluginRpcHooks
        /\ Cardinality(CallsOf("removeAllPermissionsFor", last.calls)) = 1
        /\ \A i \in CallsOf("removeAllPermissionsFor", last.calls) :
             last.calls[i].arg = last.names

\* A batch of two ids was removed while a start of one of them, whose hook had
\* been registered, was still waiting for its acknowledgement.
C8_Witness ==
    /\ last.op = "removePlugins"
    /\ Len(last.names) = 2
    /\ \E t \in TaskIds : tasks[t].pc = "awaitStart" /\ tasks[t].id \in Range(last.names)

\* ---- C9
\* C9: when the start of a record b launched by runExistingPlugins fails
\* (context creation or the start command is rejected) while another record a
\* was started and is active, b is fully absent from the store: record,
\* opaque state and hook are removed.
C9_FailedRestartRemoved ==
    (/\ last.op = "start failed"
     /\ \E a \in Ids \ {last.id} : IsActive(a) /\ a \in pluginRpcHooks) =>
        /\ ~Has(last.id)
        /\ last.id \notin DOMAIN store.pluginStates
        /\ last.id \notin pluginRpcHooks

\* ---- C6
\* C6: for every requested id for which hasPermission is false, installPlugins
\* puts an unauthorized error entry in the result and, for that id, starts no
\* fetch, sets no Pending-Install Marker, creates no execution context,
\* registers no hook and leaves the canonical store unchanged.
C6_DeniedTouchesNothing ==
    [][last'.op = "installPlugins" =>
        \A id \in installs'[last'.call].denied :
            /\ id \in DOMAIN installs'[last'.call].result
            /\ installs'[last'.call].result[id] = Unauthorized
            /\ \A t \in TaskIds : tasks'[t] # tasks[t] => tasks'[t].id # id
            /\ \A r \in RunIds : addRuns'[r].id = id => addRuns'[r] = addRuns[r]
            /\ (id \in DOMAIN pluginsBeingAdded') = (id \in DOMAIN pluginsBeingAdded)
            /\ id \in DOMAIN pluginsBeingAdded =>
                 pluginsBeingAdded'[id] = pluginsBeingAdded[id]
            /\ \A i \in DOMAIN last'.calls : last'.calls[i].arg # <<id>>
            /\ pluginRpcHooks' = pluginRpcHooks
            /\ store' = store
      ]_vars

\* installPlugins was called with one id permitted, for which a fetch was
\* started, and one id denied.
C6_Witness ==
    /\ last.op = "installPlugins"
    /\ installs[last.call].denied # {}
    /\ installs[last.call].denied # installs[last.call].requested
    /\ CallsOf("fetch", last.calls) # {}

\* ---- C7
\* C7: processRequestedPlugin never raises, every failure of add, authorize or
\* start becomes an error result; and when every collaborator call eventually
\* settles, installPlugins eventually resolves, never rejects, and its result
\* holds exactly one entry, a view or an error, for each requested id.
C7_InstallAlwaysResolves ==
    /\ [](last.op = "processRequestedPlugin settled" =>
            last.res.kind \in {"view", "error"})
    /\ [](last.op = "installPlugins settled" =>
            /\ last.res.kind = "result"
            /\ DOMAIN last.res.val = Range(last.names)
            /\ \A id \in DOMAIN last.res.val :
                 last.res.val[id].kind \in {"view", "error"})
    /\ \A c \in InstallIds :
         (installs[c].status # "free")
            ~> (last.op = "installPlugins settled" /\ last.call = c
                /\ last.res.kind = "result")

\* installPlugins resolved with the view of one id and, for the other, the
\* error of a start that failed.
C7_Witness ==
    /\ last.op = "installPlugins settled"
    /\ last.res.kind = "result"
    /\ \E id1, id2 \in DOMAIN last.res.val :
         /\ last.res.val[id1].kind = "view"
         /\ last.res.val[id2].kind = "error"
         /\ last.res.val[id2].err = "startPlugin"

\* ---- C11
\* The runs of processRequestedPlugin for id that are suspended at one of pcs.
ProcessAt(id, pcs) ==
    {t \in TaskIds : tasks[t].kind = "process" /\ tasks[t].id = id /\ tasks[t].pc \in pcs}

\* C11: when calls of processRequestedPlugin for the same id that is not yet
\* active overlap, each step is performed once for the id: never do two of the
\* runs each have a permission request pending, never has each of two runs
\* created an execution context, never has each sent a start command.
C11_EachStepOnce ==
    \A id \in Ids :
        /\ Cardinality(ProcessAt(id, {"awaitPerm"})) <= 1
        /\ Cardinality(ProcessAt(id, {"awaitWorker", "awaitStart"})) <= 1
        /\ Cardinality(ProcessAt(id, {"awaitStart"})) <= 1

\* ---- C12
\* C12: in every published state, whatever removals interleave with the
\* starts in flight, an id with a registered RPC hook has a record in the
\* canonical store.
C12_HookHasRecord == pluginRpcHooks \subseteq DOMAIN store.plugins

\* ---- C13
\* C13: immediately after clearState() returns, store.plugins and
\* store.pluginStates are empty, no RPC hook is registered, the inline-running
\* flag is false; closeAllConnections was called for every id that had a
\* record before the call, terminateAll was called, and
\* removeAllPermissionsFor was called once, with exactly the prior ids.
C13_ClearStateResetsAll ==
    [][last'.op = "clearState" =>
        /\ store'.plugins = EmptyMap
        /\ store'.pluginStates = EmptyMap
        /\ pluginRpcHooks' = {}
        /\ memStore'.inlinePluginIsRunning = FALSE
        /\ \A id \in DOMAIN store.plugins :
             \E i \in CallsOf("closeAllConnections", last'.calls) :
                 last'.calls[i].arg = <<id>>
        /\ CallsOf("terminateAll", last'.calls) # {}
        /\ Cardinality(CallsOf("removeAllPermissionsFor", last'.calls)) = 1
        /\ \A i \in CallsOf("removeAllPermissionsFor", last'.calls) :
             /\ Range(last'.calls[i].arg) = DOMAIN store.plugins
             /\ Len(last'.calls[i].arg) = Cardinality(DOMAIN store.plugins)
      ]_vars

\* clearState ran over two records while the start of the inline plugin,
\* whose hook had been registered, was waiting for its acknowledgement.
C13_Witness ==
    /\ last.op = "clearState"
    /\ Len(last.names) = 2
    /\ \E t \in TaskIds : tasks[t].kind = "inline" /\ tasks[t].pc = "awaitStart"

\* ---- C14
\* C14: once removeInlinePlugin() was called and every step of the earlier
\* runInlinePlugin has settled, with no later runInlinePlugin, the
\* inline-running flag is false and the reserved id has neither a record nor
\* an RPC hook.  (Without clearState the flag is false exactly when no
\* runInlinePlugin was called since the last removeInlinePlugin.)
C14_InlineStaysRemoved ==
    (/\ memStore.inlinePluginIsRunning = FALSE
     /\ \A t \in TaskIds : tasks[t].id # InlinePlugin)
    => /\ ~Has(InlinePlugin)
       /\ InlinePlugin \notin pluginRpcHooks

\* ---- C15
\* C15 as stated: in every reachable state each entry of memStore.plugins
\* holds exactly the fields initialPermissions, name and permissionName, and
\* so never isActive.
C15_ProjectionIsSerializableView ==
    \A id \in DOMAIN memStore.plugins :
        DOMAIN memStore.plugins[id] = SERIALIZABLE_PLUGIN_PROPERTIES

\* C15 amended: in every reachable state each entry of memStore.plugins is
\* the canonical record of its id without the sourceCode field; its fields
\* are among initialPermissions, name, permissionName and isActive, and it
\* holds isActive whenever the record does.
C15_ProjectionIsRecordMinusSource ==
    \A id \in DOMAIN memStore.plugins :
        /\ Has(id)
        /\ memStore.plugins[id] = Delete(Get(id), {"sourceCode"})
        /\ DOMAIN memStore.plugins[id]
             \subseteq SERIALIZABLE_PLUGIN_PROPERTIES \cup {"isActive"}
        /\ ("isActive" \in DOMAIN Get(id)) = ("isActive" \in DOMAIN memStore.plugins[id])

\* A restarted record was set active and the projection shows it as active.
C15_Witness ==
    /\ last.op = "started"
    /\ last.id \in DOMAIN memStore.plugins
    /\ "isActive" \in DOMAIN memStore.plugins[last.id]
    /\ memStore.plugins[last.id].isActive
    /\ "name" \in DOMAIN memStore.plugins[last.id]

\* ---- C16
\* C16: a run of processRequestedPlugin(id) for a plugin that is not active
\* goes through add, authorize and start in this order: it asks for
\* permissions only when its add has resolved, it creates an execution
\* context only when add has resolved and authorize has returned its list,
\* and a hook is registered only by a run that created a context; when the
\* Permission Gateway rejects, the run ends with an error result and that step
\* creates no context, registers no hook and leaves the store, isActive
\* included, as it was.
C16_AddAuthorizeStart ==
    [][/\ CallsOf("requestPermissions", last'.calls) # {} /\ last'.op # "authorize" =>
            \E t \in TaskIds :
                /\ tasks[t].kind = "process" /\ tasks[t].id = last'.id
                /\ tasks[t].pc = "awaitAdd" /\ addRuns[tasks[t].run].pc = "resolved"
                /\ tasks'[t].pc = "awaitPerm"
       /\ CallsOf("createPluginWorker", last'.calls) # {} =>
            \E t \in TaskIds :
                /\ tasks[t].kind = "process" /\ tasks[t].id = last'.id
                /\ \/ tasks[t].pc = "awaitPerm"
                   \/ tasks[t].pc = "awaitAdd" /\ addRuns[tasks[t].run].pc = "resolved"
                /\ last'.op = "authorize returned" /\ last'.res.kind = "list"
                /\ tasks'[t].pc = "awaitWorker"
       /\ pluginRpcHooks' \ pluginRpcHooks # {} =>
            \E t \in TaskIds :
                /\ tasks[t].kind = "process" /\ tasks[t].pc = "awaitWorker"
                /\ pluginRpcHooks' \ pluginRpcHooks = {tasks[t].id}
       /\ \A t \in TaskIds :
            (/\ tasks[t].kind = "process" /\ tasks[t].pc = "awaitPerm"
             /\ tasks'[t] # tasks[t] /\ tasks'[t].pc # "awaitWorker") =>
                /\ tasks'[t] = IdleTask
                /\ last'.res = ErrorResult("rejected")
                /\ last'.calls = <<>>
                /\ pluginRpcHooks' = pluginRpcHooks
                /\ store' = store
      ]_vars

\* A run of processRequestedPlugin has just ended with the error of a rejected
\* permission request: the record its add wrote is there, inactive, without a
\* hook.
C16_Witness ==
    /\ last.op = "processRequestedPlugin settled"
    /\ last.res = ErrorResult("rejected")
    /\ Has(last.id) /\ ~IsActive(last.id)
    /\ last.id \notin pluginRpcHooks
    /\ \A t \in TaskIds : tasks[t].kind = "idle"

\* ---- C17
ActiveIn(plugins, id) ==
    /\ id \in DOMAIN plugins
    /\ "isActive" \in DOMAIN plugins[id]
    /\ plugins[id].isActive

\* C17: in every run of _startPluginInWorker(id, source) the hook of id is
\* registered when the creation of the execution context has been
\* acknowledged, the start command is sent in the same step and never while
\* the hook of id is missing, and isActive becomes true only in the step in
\* which the start command of a run for id is acknowledged; a start that is
\* rejected leaves the store as it was.
C17_StartOrder ==
    [][/\ pluginRpcHooks' \ pluginRpcHooks # {} =>
            \E t \in TaskIds :
                /\ tasks[t].pc = "awaitWorker"
                /\ pluginRpcHooks' \ pluginRpcHooks = {tasks[t].id}
       /\ CallsOf("startPlugin", last'.calls) # {} =>
            \E t \in TaskIds :
                /\ tasks[t].pc = "awaitWorker" /\ tasks'[t].pc = "awaitStart"
                /\ \A i \in CallsOf("startPlugin", last'.calls) :
                     last'.calls[i].arg = <<tasks[t].id>>
                /\ tasks[t].id \in pluginRpcHooks'
       /\ \A id \in DOMAIN store'.plugins :
            ActiveIn(store'.plugins, id) /\ ~ActiveIn(store.plugins, id) =>
                \E t \in TaskIds :
                    /\ tasks[t].pc = "awaitStart" /\ tasks[t].id = id
                    /\ tasks'[t] = IdleTask
                    /\ last'.res.kind \notin {"raised", "error"}
       /\ last'.op = "start failed" => store' = store
      ]_vars

\* The start of a stored record that was not active has been acknowledged:
\* the record is active and its hook is registered.
C17_Witness ==
    /\ last.op = "started"
    /\ IsActive(last.id)
    /\ last.id \in pluginRpcHooks
    /\ "sourceCode" \in DOMAIN Get(last.id)

\* ---- C18
\* C18: in every reachable state, from any persisted initial state, a record
\* with isActive = true has a registered RPC hook for its id.
C18_ActiveHasHook ==
    \A id \in DOMAIN store.plugins : IsActive(id) => id \in pluginRpcHooks

\* ---- C19
\* No call of the controller is suspended and no fetch is in flight.
Quiescent ==
    /\ \A t \in TaskIds : tasks[t].kind = "idle"
    /\ \A r \in RunIds : ~InFlight(r)

\* C19: an earlier, settled attempt does not block a later one: a call of
\* processRequestedPlugin(id) made when nothing is in flight, right after an
\* earlier attempt resolved with the error of a failed add, or right after
\* removePlugin(id) or clearState() removed what an earlier attempt installed,
\* starts a fresh fetch for id.
C19_LaterInstallFetchesAfresh ==
    [][(/\ Quiescent
        /\ \/ /\ last.op = "processRequestedPlugin settled"
              /\ last.res = ErrorResult("Problem loading plugin")
           \/ last.op \in {"removePlugins", "clearState"}
        /\ last'.op = "processRequestedPlugin"
        /\ ~Has(last'.id))
       => CallsOf("fetch", last'.calls) # {}
      ]_vars

\* ---- C20
\* The ids an operation is about.
Targets(ev) == Range(ev.names) \cup {ev.id}

\* C20: no update of the canonical store is lost when operations on different
\* ids interleave: every step leaves the record (isActive included) and the
\* opaque state of every id it is not about exactly as they were, and the
\* step in which an _add succeeds puts the record it resolves with into the
\* store; so when add(p) and add(q) overlap and both succeed, with nothing
\* removed, the store holds both records.
C20_NoLostUpdate ==
    [][/\ \A id \in Ids \ Targets(last') :
            /\ (id \in DOMAIN store'.plugins) = (id \in DOMAIN store.plugins)
            /\ id \in DOMAIN store.plugins => store'.plugins[id] = store.plugins[id]
            /\ (id \in DOMAIN store'.pluginStates) = (id \in DOMAIN store.pluginStates)
            /\ id \in DOMAIN store.pluginStates =>
                 store'.pluginStates[id] = store.pluginStates[id]
       /\ last'.op = "_add" /\ last'.res.kind = "plugin" =>
            /\ last'.id \in DOMAIN store'.plugins
            /\ store'.plugins[last'.id] = last'.res.val
       /\ last'.op = "started" => ActiveIn(store'.plugins, last'.id)
      ]_vars

\* add("a") and add("b") overlapped and both succeeded: both callers are
\* still suspended on their promises, the second _add has just resolved, "b"
\* has opaque state, and the store holds both records.
C20_Witness ==
    /\ last.op = "_add" /\ last.res.kind = "plugin"
    /\ \A t \in TaskIds : tasks[t].kind = "add" /\ tasks[t].pc = "awaitAdd"
    /\ tasks[1].id # tasks[2].id
    /\ \A t \in TaskIds : addRuns[tasks[t].run].pc = "resolved"
    /\ \A id \in Ids : Has(id) /\ "sourceCode" \in DOMAIN Get(id)
    /\ "b" \in DOMAIN store.pluginStates

====
